---- MODULE Spec2Model ----
(***************************************************************************)
(* Verification model of powermeter-utils (DBUtils): the power meter       *)
(* protocol client, the monthly SQLite shards, the range read and the      *)
(* aggregation of cumulative readings into diffs.                          *)
(*                                                                         *)
(* Time is counted in whole hours for the aggregation engine (recorded     *)
(* times are unix times, the model's unit being 3600 s) and measured       *)
(* values are fixed-point integers counting 1/Frac of 0.0001, so that      *)
(* roundToFourDecimals is a real rounding and not the identity.            *)
(***************************************************************************)
EXTENDS Integers, Sequences, FiniteSets, TLC

\* ------------------------------------------------------------------ bounds
\* longest input of getDetails
MaxLen == 4
\* recorded times of the aggregation input are 0 .. MaxTime (hours)
MaxTime == 4
\* measured values of the aggregation input are 0 .. MaxValue (fixed point)
MaxValue == 2
\* channels of the aggregation input are 0 .. MaxChannel
MaxChannel == 1
\* fixed-point resolution: a measured value v stands for v / Frac * 0.0001
Frac == 2
\* calendar of the model: hours in a day, days in a month
HoursPerDay == 2
DaysPerMonth == 2
\* poll slots: the polls that may be in flight at the same time
MaxPolls == 2
\* polls started in one behaviour
MaxPollRuns == 2
\* ingestion times and query bounds are 0 .. MaxClock, counted in ticks
MaxClock == 5
\* calendar of the store: ticks in an hour (the resolution of currentTime, fromDate
\* and toDate), hours in a month, months in a year
TicksPerHour == 2
HoursPerShardMonth == 2
MonthsPerYear == 1

VARIABLES
    \* ---- getDetails / getAvgSum
    measurements,    \* the input consumed so far by the forEach of getDetails
    details,         \* "hourly" | "daily" | "monthly"
    isAggregation,   \* the includeBaseline flag
    result,          \* RecElement[] result
    prevElement,     \* RecElement[] indexed by channel (the baselines)
    lastElement,     \* RecElement[] indexed by channel (the last seen readings)
    isAddableEntry,
    isDailyEnabled,
    isMonthlyEnabled,
    prevRecTime,
    aggPc,           \* "loop" | "done" | "summed"
    avgSum,          \* ResultAVG[] returned by getAvgSum
    \* ---- getMeasurementsFromPowerMeter, one value per poll slot
    sock,            \* the client socket: "none" | "connecting" | "open" | "ended" |
                     \*   "remoteEnded" | "destroyed"
    currentTime,     \* the currentTime parameter
    channels,        \* the channels parameter: the enabled channel labels
    serverText,      \* the text the power meter sends
    response,        \* the response accumulated by the data handler
    sentCmd,         \* how often 'read all' was written
    outcome,         \* the promise: "idle" | "pending" | "done" | the first rejection
    endPc,           \* the end handler: "none" | "createTable" | "begin" | "commit" |
                     \*   "finished" | "crashed"
    db,              \* the store handle of the end handler: "none" | "open" | "closed"
    txn,             \* the transaction of that handle: "none" | "open" (BEGIN granted) |
                     \*   "refused" (BEGIN failed: there is none) | "committed" |
                     \*   "commitFailed" (rolled back by close)
    inserted,        \* history: the <<month, id>> of the rows this poll committed
    pollRuns,        \* history: the polls started so far
    faults,          \* the environment of this behaviour may fail: timeouts, socket
                     \*   errors, refused or failed statements
    \* ---- the files under WORKDIR/<ip>
    dirExists,       \* the device directory exists
    shards,          \* month -> [exists, rows]: the <YYYY-MM>-monthly.sqlite files
    lock,            \* month -> the poll slot holding the exclusive transaction, or 0
    yearly,          \* year -> [exists, rows]: the <YYYY>-yearly.sqlite files
    \* ---- getMeasurementsFromDBs, getYearlyMeasurementsFromDBs (one read at a time)
    rdPc,            \* "idle" | "loop" | "query" | "done" | "yearlyQuery" | "yearlyDone" |
                     \*   "opened" (a Database from getMeasurementsDB is held)
    fromDate,
    toDate,
    channelFilter,   \* the channel parameter
    monthlyIterator,
    rdResult,        \* Measurement[] result
    rdFailed,        \* history: the months (the year) whose query failed
    rdOpen           \* the store handles the read holds open: <<"monthly", month>>,
                     \*   <<"yearly", year>>

aggVars == <<measurements, details, isAggregation, result, prevElement, lastElement,
             isAddableEntry, isDailyEnabled, isMonthlyEnabled, prevRecTime, aggPc, avgSum>>

pollVars == <<sock, currentTime, channels, serverText, response, sentCmd, outcome, endPc,
              db, txn, inserted, pollRuns, faults>>
storeVars == <<dirExists, shards, lock, yearly>>
readVars == <<rdPc, fromDate, toDate, channelFilter, monthlyIterator, rdResult, rdFailed,
              rdOpen>>

vars == <<aggVars, pollVars, storeVars, readVars>>

\* ------------------------------------------------------------ helper types
AggChannels == 0 .. MaxChannel
AggTimes == 0 .. MaxTime
AggValues == 0 .. MaxValue

NoTime == 0 - 1
NoChannel == 0 - 1

\* interface Measurement (the id is not read by the aggregation)
Measurement(t, v, c) == [recorded_time |-> t, measured_value |-> v, channel |-> c]

\* an array slot that was never assigned
UndefinedRec == [recorded_time |-> NoTime, measured_value |-> 0, channel |-> NoChannel,
                 diff |-> 0, from_time |-> NoTime, to_time |-> NoTime]
UndefinedLast == Measurement(NoTime, 0, NoChannel)

\* ---------------------------------------------------------- pure functions
\* Math.round(value * 10000) / 10000, Math.round rounding halves towards +infinity
RoundToFourDecimals(value) == ((2 * value + Frac) \div (2 * Frac)) * Frac

\* roundToFourDecimals(sum / count) of getAvgSum, on the fixed-point sum
RoundedQuotient(sum, count) == ((2 * sum + Frac * count) \div (2 * Frac * count)) * Frac

DayStart(t) == (t \div HoursPerDay) * HoursPerDay
MonthStart(t) == (t \div (HoursPerDay * DaysPerMonth)) * (HoursPerDay * DaysPerMonth)

\* roundedDay.diff(roundedPrevDay, "days") >= 1
checkDaylyEnabled(element, prev) ==
    LET roundedPrevDay == DayStart(prev[element.channel].recorded_time)
        roundedDay == DayStart(element.recorded_time)
        diffDays == (roundedDay - roundedPrevDay) \div HoursPerDay
    IN  diffDays >= 1

\* roundedMonth.diff(roundedPrevMonth, "months", true) >= 0.9: between two month
\* starts the difference is a whole number of months
checkMonthlyEnabled(element, prev) ==
    LET roundedPrevMonth == MonthStart(prev[element.channel].recorded_time)
        roundedMonth == MonthStart(element.recorded_time)
        diffMonths == (roundedMonth - roundedPrevMonth) \div (HoursPerDay * DaysPerMonth)
    IN  10 * diffMonths >= 9

\* a baseline that carries the reading as its diff, for comparison with the one
\* below
initPrevElementWithDiff(element, prev) ==
    [prev EXCEPT ![element.channel] =
        [recorded_time |-> element.recorded_time,
         measured_value |-> element.measured_value,
         channel |-> element.channel,
         diff |-> element.measured_value, from_time |-> NoTime, to_time |-> NoTime]]

initPrevElement(element, prev) ==
    [prev EXCEPT ![element.channel] =
        [recorded_time |-> element.recorded_time,
         measured_value |-> element.measured_value,
         channel |-> element.channel,
         diff |-> 0, from_time |-> NoTime, to_time |-> NoTime]]

\* calcDiff with the operands of the subtraction exchanged
calcDiffExchanged(element, prev) ==
    LET diff == RoundToFourDecimals(prev[element.channel].measured_value - element.measured_value)
    IN  [prev EXCEPT ![element.channel] =
            [recorded_time |-> element.recorded_time,
             from_time |-> prev[element.channel].recorded_time,
             to_time |-> element.recorded_time,
             measured_value |-> element.measured_value,
             channel |-> element.channel,
             diff |-> diff]]

\* calcDiff with the interval starting at the reading itself, for comparison with
\* the one below
calcDiffFromItself(element, prev) ==
    LET diff == RoundToFourDecimals(element.measured_value - prev[element.channel].measured_value)
    IN  [prev EXCEPT ![element.channel] =
            [recorded_time |-> element.recorded_time,
             from_time |-> element.recorded_time,
             to_time |-> element.recorded_time,
             measured_value |-> element.measured_value,
             channel |-> element.channel,
             diff |-> diff]]


\* the from_* and to_* fields render the two unix times in four time zones; the
\* model keeps the unix times themselves
calcDiff(element, prev) ==
    LET diff == RoundToFourDecimals(element.measured_value - prev[element.channel].measured_value)
    IN  [prev EXCEPT ![element.channel] =
            [recorded_time |-> element.recorded_time,
             from_time |-> prev[element.channel].recorded_time,
             to_time |-> element.recorded_time,
             measured_value |-> element.measured_value,
             channel |-> element.channel,
             diff |-> diff]]

\* lastElement.forEach of appendLastElement: the defined slots in index order,
\* starting at channel c; returns <<result, prevElement>>
RECURSIVE appendLastElement(_, _, _, _)
appendLastElement(res, prev, last, c) ==
    IF c > MaxChannel THEN <<res, prev>>
    ELSE IF last[c] = UndefinedLast THEN appendLastElement(res, prev, last, c + 1)
    ELSE LET p == calcDiff(last[c], prev)
         IN  appendLastElement(Append(res, p[last[c].channel]), p, last, c + 1)

\* lastElement.length > 0
LastLength(last) == IF \E c \in AggChannels : last[c] # UndefinedLast THEN 1 ELSE 0

\* -------------------------------------------------------------- getDetails
\* the input is ordered by (recorded_time, channel), as the range read returns it
InOrder(a, b) ==
    \/ a.recorded_time < b.recorded_time
    \/ a.recorded_time = b.recorded_time /\ a.channel <= b.channel

InitAgg ==
    /\ measurements = <<>>
    /\ details \in {"hourly", "daily", "monthly"}
    /\ isAggregation \in BOOLEAN
    /\ result = <<>>
    /\ prevElement = [c \in AggChannels |-> UndefinedRec]
    /\ lastElement = [c \in AggChannels |-> UndefinedLast]
    /\ isAddableEntry = FALSE
    /\ isDailyEnabled = FALSE
    /\ isMonthlyEnabled = FALSE
    /\ prevRecTime = 0
    /\ aggPc = "loop"
    /\ avgSum = <<>>

\* one call of the forEach callback of getDetails
GetDetailsForEach ==
    /\ aggPc = "loop"
    /\ Len(measurements) < MaxLen
    /\ \E t \in AggTimes, v \in AggValues, c \in AggChannels :
        LET element == Measurement(t, v, c) IN
        /\ measurements # <<>> => InOrder(measurements[Len(measurements)], element)
        /\ measurements' = Append(measurements, element)
        /\ IF prevElement[c] = UndefinedRec
           THEN /\ prevElement' = initPrevElement(element, prevElement)
                /\ prevRecTime' = t
                /\ result' = IF isAggregation THEN Append(result, prevElement'[c]) ELSE result
                /\ UNCHANGED <<isDailyEnabled, isMonthlyEnabled, isAddableEntry, lastElement>>
           ELSE LET isChangedTime == prevRecTime # t IN
                /\ isDailyEnabled' = IF isChangedTime
                                     THEN details = "daily" /\ checkDaylyEnabled(element, prevElement)
                                     ELSE isDailyEnabled
                /\ isMonthlyEnabled' = IF isChangedTime
                                       THEN details = "monthly" /\ checkMonthlyEnabled(element, prevElement)
                                       ELSE isMonthlyEnabled
                /\ isAddableEntry' = (details = "hourly" \/ isDailyEnabled' \/ isMonthlyEnabled')
                /\ prevElement' = IF isAddableEntry' THEN calcDiff(element, prevElement) ELSE prevElement
                /\ result' = IF isAddableEntry' THEN Append(result, prevElement'[c]) ELSE result
                /\ prevRecTime' = t
                /\ lastElement' = [lastElement EXCEPT ![c] = Measurement(t, v, c)]
    /\ UNCHANGED <<details, isAggregation, aggPc, avgSum, pollVars, storeVars, readVars>>

\* getDetails flushing whenever a last element exists, whatever isAddableEntry
GetDetailsReturnAlwaysFlush ==
    /\ aggPc = "loop"
    /\ aggPc' = "done"
    /\ IF LastLength(lastElement) > 0
       THEN LET r == appendLastElement(result, prevElement, lastElement, 0)
            IN  result' = r[1] /\ prevElement' = r[2]
       ELSE UNCHANGED <<result, prevElement>>
    /\ UNCHANGED <<measurements, details, isAggregation, lastElement, isAddableEntry,
                   isDailyEnabled, isMonthlyEnabled, prevRecTime, avgSum,
                   pollVars, storeVars, readVars>>

\* the end of getDetails: the trailing flush and the return
GetDetailsReturn ==
    /\ aggPc = "loop"
    /\ aggPc' = "done"
    /\ IF ~isAddableEntry /\ LastLength(lastElement) > 0
       THEN LET r == appendLastElement(result, prevElement, lastElement, 0)
            IN  result' = r[1] /\ prevElement' = r[2]
       ELSE UNCHANGED <<result, prevElement>>
    /\ UNCHANGED <<measurements, details, isAggregation, lastElement, isAddableEntry,
                   isDailyEnabled, isMonthlyEnabled, prevRecTime, avgSum,
                   pollVars, storeVars, readVars>>

\* ------------------------------------------- getDetails as a function of its input
\* the locals of getDetails before the forEach
GetDetailsLocals ==
    [result |-> <<>>,
     prevElement |-> [c \in AggChannels |-> UndefinedRec],
     lastElement |-> [c \in AggChannels |-> UndefinedLast],
     isAddableEntry |-> FALSE, isDailyEnabled |-> FALSE, isMonthlyEnabled |-> FALSE,
     prevRecTime |-> 0]

\* the forEach callback on the locals s
ForEachCallback(s, element, det, agg) ==
    LET c == element.channel IN
    IF s.prevElement[c] = UndefinedRec
    THEN LET prev == initPrevElement(element, s.prevElement)
         IN  [s EXCEPT !.prevElement = prev,
                       !.prevRecTime = element.recorded_time,
                       !.result = IF agg THEN Append(@, prev[c]) ELSE @]
    ELSE LET isChangedTime == s.prevRecTime # element.recorded_time
             daily == IF isChangedTime
                      THEN det = "daily" /\ checkDaylyEnabled(element, s.prevElement)
                      ELSE s.isDailyEnabled
             monthly == IF isChangedTime
                        THEN det = "monthly" /\ checkMonthlyEnabled(element, s.prevElement)
                        ELSE s.isMonthlyEnabled
             addable == (det = "hourly" \/ daily \/ monthly)
             prev == IF addable THEN calcDiff(element, s.prevElement) ELSE s.prevElement
         IN  [s EXCEPT !.isDailyEnabled = daily,
                       !.isMonthlyEnabled = monthly,
                       !.isAddableEntry = addable,
                       !.prevElement = prev,
                       !.result = IF addable THEN Append(@, prev[c]) ELSE @,
                       !.prevRecTime = element.recorded_time,
                       !.lastElement = [@ EXCEPT ![c] = Measurement(element.recorded_time,
                                                                    element.measured_value, c)]]

RECURSIVE ForEachFrom(_, _, _, _, _)
ForEachFrom(s, ms, i, det, agg) ==
    IF i > Len(ms) THEN s
    ELSE ForEachFrom(ForEachCallback(s, ms[i], det, agg), ms, i + 1, det, agg)

\* getDetails(ms, tz, det, agg)
getDetails(ms, det, agg) ==
    LET s == ForEachFrom(GetDetailsLocals, ms, 1, det, agg)
    IN  IF ~s.isAddableEntry /\ LastLength(s.lastElement) > 0
        THEN appendLastElement(s.result, s.prevElement, s.lastElement, 0)[1]
        ELSE s.result


\* --------------------------------------------------------------- getAvgSum
\* details.forEach of getAvgSum: acc is the ResultAVG[] built so far
RECURSIVE AvgSumFold(_, _, _)
AvgSumFold(det, i, acc) ==
    IF i > Len(det) THEN acc
    ELSE LET element == det[i]
             found == {k \in 1 .. Len(acc) : acc[k].channel = element.channel}
         IN  IF found = {}
             THEN IF element.diff # 0
                  THEN AvgSumFold(det, i + 1,
                           Append(acc, [channel |-> element.channel, sum |-> element.diff,
                                        avg |-> 0, count |-> 1]))
                  ELSE AvgSumFold(det, i + 1, acc)
             ELSE IF element.diff # 0
                  THEN LET k == CHOOSE k \in found : \A j \in found : k <= j
                       IN  AvgSumFold(det, i + 1,
                               [acc EXCEPT ![k].sum = @ + element.diff, ![k].count = @ + 1])
                  ELSE AvgSumFold(det, i + 1, acc)

\* result.forEach of getAvgSum
AvgSumRound(acc) ==
    [k \in 1 .. Len(acc) |->
        LET s == RoundToFourDecimals(acc[k].sum)
        IN  [channel |-> acc[k].channel, sum |-> s,
             avg |-> RoundedQuotient(s, acc[k].count), count |-> acc[k].count]]

\* getAvgSum runs getDetails(measurements, tz, "hourly", false) and folds its result
GetAvgSum ==
    /\ aggPc = "done"
    /\ details = "hourly"
    /\ ~isAggregation
    /\ avgSum' = AvgSumRound(AvgSumFold(result, 1, <<>>))
    /\ aggPc' = "summed"
    /\ UNCHANGED <<measurements, details, isAggregation, result, prevElement, lastElement,
                   isAddableEntry, isDailyEnabled, isMonthlyEnabled, prevRecTime,
                   pollVars, storeVars, readVars>>

\* ================================================================ the store
Polls == 1 .. MaxPolls
\* the slot of a caller that awaits each poll before it starts the next
OnePoll == {1}
Clock == 0 .. MaxClock
TicksPerMonth == TicksPerHour * HoursPerShardMonth

\* currentTime.format("YYYY-MM"), monthlyIterator.format("YYYY-MM")
MonthOf(t) == t \div TicksPerMonth
Months == 0 .. MonthOf(MaxClock)

\* fromDate.format("YYYY")
TicksPerYear == TicksPerMonth * MonthsPerYear
YearOf(t) == t \div TicksPerYear
Years == 0 .. YearOf(MaxClock)

\* the ingestion time as it is, for comparison with the truncation below
currentTimeNotRounded(t) == t

\* dayjs(currentTime).set("minute", 0).set("second", 0).set("millisecond", 0).unix()
currentTimeRoundedToHour(t) == (t \div TicksPerHour) * TicksPerHour

\* dayjs(fromDate).set("date", 1).set("hour", 0).set("minute", 0).set("second", 0)
\*     .set("millisecond", 0)
MonthStartOf(t) == MonthOf(t) * TicksPerMonth

\* a row of the Measurements table; the id is the AUTOINCREMENT key
Row(id, c, v, t) == [id |-> id, channel |-> c, measured_value |-> v, recorded_time |-> t]

NoShard == [exists |-> FALSE, rows |-> <<>>]

\* ============================================================ the response
\* The text is a sequence of symbols: "channel_<label> : " (a tag, the label being
\* its digits), a decimal number, a line feed, and any other text.
Tag(l) == [kind |-> "tag", label |-> l, val |-> 0]
Num(d) == [kind |-> "num", label |-> <<>>, val |-> d]
NL == [kind |-> "nl", label |-> <<>>, val |-> 0]
Junk == [kind |-> "junk", label |-> <<>>, val |-> 0]

Line(l, d) == <<Tag(l), Num(d), NL>>

\* the number of characters of a symbol
SymLen(s) == IF s.kind = "tag" THEN 11 + Len(s.label) ELSE 1

Channel0 == <<0>>
Channel13 == <<1, 3>>

\* what a power meter sends: the sentinel line first, last, or after other text
Responses ==
    { Line(Channel13, 3) \o Line(Channel0, 2),
      Line(Channel0, 2) \o Line(Channel13, 3),
      <<Junk, NL>> \o Line(Channel13, 3) }

EnabledChoices == { {Channel0, Channel13}, {Channel13} }

\* response.indexOf("channel_13"): the character offset of the first tag of
\* channel 13, -1 when there is none
RECURSIVE IndexOfFrom(_, _, _)
IndexOfFrom(text, i, offset) ==
    IF i > Len(text) THEN 0 - 1
    ELSE IF text[i].kind = "tag" /\ text[i].label = Channel13 THEN offset
    ELSE IndexOfFrom(text, i + 1, offset + SymLen(text[i]))
IndexOfChannel13(text) == IndexOfFrom(text, 1, 0)

\* the test of the data handler
SentinelSeen(text) == IndexOfChannel13(text) > 0

\* response.split('\n')
RECURSIVE SplitFrom(_, _, _, _)
SplitFrom(text, i, line, acc) ==
    IF i > Len(text) THEN Append(acc, line)
    ELSE IF text[i].kind = "nl" THEN SplitFrom(text, i + 1, <<>>, Append(acc, line))
    ELSE SplitFrom(text, i + 1, Append(line, text[i]), acc)
Split(text) == SplitFrom(text, 1, <<>>, <<>>)

\* the digits of matches[1] as the number SQLite reads in the INSERT
ChannelNumber(label) == IF Len(label) = 1 THEN label[1] ELSE 10 * label[1] + label[2]

\* line.match(/^channel_(\d{1,2}) : (.*)/)
Matches(line) == Len(line) >= 1 /\ line[1].kind = "tag" /\ Len(line[1].label) \in {1, 2}

\* parseFloat(matches[2]) is a number
IsNumber(line) == Len(line) >= 2 /\ line[2].kind = "num"

\* the INSERT statements processMeasurements executes, in order; nan marks the
\* statement of a value that parses to NaN, which SQLite rejects
RECURSIVE processMeasurements(_, _, _, _)
processMeasurements(lines, i, t, enabled) ==
    IF i > Len(lines) THEN <<>>
    ELSE LET line == lines[i] IN
         IF Matches(line) /\ line[1].label \in enabled
         THEN <<[channel |-> ChannelNumber(line[1].label),
                 measured_value |-> IF IsNumber(line) THEN line[2].val * 1000 ELSE 0,
                 recorded_time |-> currentTimeRoundedToHour(t),
                 nan |-> ~IsNumber(line)]>>
              \o processMeasurements(lines, i + 1, t, enabled)
         ELSE processMeasurements(lines, i + 1, t, enabled)

\* the rows of a shard after the statements ran (db.exec ignores a failed INSERT)
RECURSIVE ExecInserts(_, _, _)
ExecInserts(rows, stmts, i) ==
    IF i > Len(stmts) THEN rows
    ELSE IF stmts[i].nan THEN ExecInserts(rows, stmts, i + 1)
    ELSE ExecInserts(Append(rows, Row(Len(rows) + 1, stmts[i].channel,
                                      stmts[i].measured_value, stmts[i].recorded_time)),
                     stmts, i + 1)

\* ====================================== getMeasurementsFromPowerMeter (a poll)
\* resolve and reject settle the promise once
\* a promise that the last call settles, for comparison with the promise below
SettleLast(p, o) == o

Settle(p, o) == IF outcome[p] = "pending" THEN o ELSE outcome[p]

SocketLive(p) == sock[p] \in {"connecting", "open", "ended"}
HandlerRunning(p) == endPc[p] \in {"createTable", "begin", "commit"}

\* the failures the environment may produce in this behaviour
MayFail == IF faults THEN BOOLEAN ELSE {FALSE}

\* nothing more happens in this poll: no socket event can arrive, no handler runs
PollOver(p) == ~SocketLive(p) /\ ~HandlerRunning(p)

InitPoll ==
    /\ sock = [p \in Polls |-> "none"]
    /\ currentTime = [p \in Polls |-> 0]
    /\ channels = [p \in Polls |-> {}]
    /\ serverText = [p \in Polls |-> <<>>]
    /\ response = [p \in Polls |-> <<>>]
    /\ sentCmd = [p \in Polls |-> 0]
    /\ outcome = [p \in Polls |-> "idle"]
    /\ endPc = [p \in Polls |-> "none"]
    /\ db = [p \in Polls |-> "none"]
    /\ txn = [p \in Polls |-> "none"]
    /\ inserted = [p \in Polls |-> {}]
    /\ pollRuns = 0

InitStore ==
    /\ dirExists = FALSE
    /\ shards = [m \in Months |-> NoShard]
    /\ lock = [m \in Months |-> 0]
    /\ yearly = [y \in Years |-> NoShard]

InitRead ==
    /\ rdPc = "idle"
    /\ fromDate = 0
    /\ toDate = 0
    /\ channelFilter = [kind |-> "none", one |-> 0, set |-> {}]
    /\ monthlyIterator = 0
    /\ rdResult = <<>>
    /\ rdFailed = {}
    /\ rdOpen = {}

\* the executor of the promise: new Socket, setTimeout, connect, the handlers
StartPoll(p) ==
    /\ outcome[p] # "pending"
    /\ PollOver(p)
    /\ endPc[p] # "crashed"
    /\ pollRuns < MaxPollRuns
    /\ rdPc = "idle"
    /\ pollRuns' = pollRuns + 1
    /\ \E t \in Clock, enabled \in EnabledChoices, text \in Responses, connectThrows \in MayFail :
        /\ currentTime' = [currentTime EXCEPT ![p] = t]
        /\ channels' = [channels EXCEPT ![p] = enabled]
        /\ serverText' = [serverText EXCEPT ![p] = text]
        /\ sock' = [sock EXCEPT ![p] = IF connectThrows THEN "none" ELSE "connecting"]
        /\ outcome' = [outcome EXCEPT ![p] = IF connectThrows THEN "connectError" ELSE "pending"]
    /\ response' = [response EXCEPT ![p] = <<>>]
    /\ sentCmd' = [sentCmd EXCEPT ![p] = 0]
    /\ endPc' = [endPc EXCEPT ![p] = "none"]
    /\ db' = [db EXCEPT ![p] = "none"]
    /\ txn' = [txn EXCEPT ![p] = "none"]
    /\ inserted' = [inserted EXCEPT ![p] = {}]
    /\ UNCHANGED <<faults, storeVars, readVars, aggVars>>

\* the connect callback
Connect(p) ==
    /\ sock[p] = "connecting"
    /\ sock' = [sock EXCEPT ![p] = "open"]
    /\ sentCmd' = [sentCmd EXCEPT ![p] = @ + 1]
    /\ UNCHANGED <<currentTime, channels, serverText, response, outcome, endPc, db, txn,
                   inserted, pollRuns, faults, storeVars, readVars, aggVars>>

\* client.on('timeout'): 5 s without activity on the socket
Timeout(p) ==
    /\ faults
    /\ SocketLive(p)
    /\ outcome[p] = "pending"
    /\ outcome' = [outcome EXCEPT ![p] = Settle(p, "timeout")]
    /\ UNCHANGED <<sock, currentTime, channels, serverText, response, sentCmd, endPc, db, txn,
                   inserted, pollRuns, faults, storeVars, readVars, aggVars>>

\* an error handler that connects again, for comparison with the one below
SocketErrorReconnects(p) ==
    /\ faults
    /\ SocketLive(p)
    /\ sock' = [sock EXCEPT ![p] = "connecting"]
    /\ outcome' = [outcome EXCEPT ![p] = Settle(p, "socketError")]
    /\ UNCHANGED <<currentTime, channels, serverText, response, sentCmd, endPc, db, txn,
                   inserted, pollRuns, faults, storeVars, readVars, aggVars>>


\* client.on('error')
SocketError(p) ==
    /\ faults
    /\ SocketLive(p)
    /\ sock' = [sock EXCEPT ![p] = "destroyed"]
    /\ outcome' = [outcome EXCEPT ![p] = Settle(p, "socketError")]
    /\ UNCHANGED <<currentTime, channels, serverText, response, sentCmd, endPc, db, txn,
                   inserted, pollRuns, faults, storeVars, readVars, aggVars>>

\* client.on('data'): the next chunk of the text, of any size
Data(p) ==
    /\ sock[p] \in {"open", "ended"}
    /\ \E n \in (Len(response[p]) + 1) .. Len(serverText[p]) :
        LET received == SubSeq(serverText[p], 1, n) IN
        /\ response' = [response EXCEPT ![p] = received]
        /\ sock' = [sock EXCEPT ![p] = IF SentinelSeen(received) THEN "ended" ELSE @]
    /\ UNCHANGED <<currentTime, channels, serverText, sentCmd, outcome, endPc, db, txn,
                   inserted, pollRuns, faults, storeVars, readVars, aggVars>>

\* an end handler that goes on only when the data handler saw the sentinel, for
\* comparison with the one below
EndEventNeedsSentinel(p) ==
    /\ sock[p] \in {"open", "ended"}
    /\ sock' = [sock EXCEPT ![p] = "remoteEnded"]
    /\ IF SentinelSeen(response[p])
       THEN /\ dirExists' = TRUE
            /\ db' = [db EXCEPT ![p] = "open"]
            /\ endPc' = [endPc EXCEPT ![p] =
                   IF shards[MonthOf(currentTime[p])].exists THEN "begin" ELSE "createTable"]
       ELSE /\ endPc' = [endPc EXCEPT ![p] = "finished"]
            /\ UNCHANGED <<db, dirExists>>
    /\ UNCHANGED <<currentTime, channels, serverText, response, sentCmd, outcome, txn,
                   inserted, pollRuns, faults, shards, lock, yearly, readVars, aggVars>>

\* an end handler that goes on to create the table whether or not the file
\* exists, for comparison with the one below
EndEventCreatesAgain(p) ==
    /\ sock[p] \in {"open", "ended"}
    /\ sock' = [sock EXCEPT ![p] = "remoteEnded"]
    /\ dirExists' = TRUE
    /\ db' = [db EXCEPT ![p] = "open"]
    /\ endPc' = [endPc EXCEPT ![p] = "createTable"]
    /\ UNCHANGED <<currentTime, channels, serverText, response, sentCmd, outcome, txn,
                   inserted, pollRuns, faults, shards, lock, yearly, readVars, aggVars>>


\* client.on('end') up to the first await: getMeasurementsDB(ip, file, true) tests
\* and makes the directory, opens the existing file or goes on to create it.
\* mkdirSync may throw, which ends the handler with nothing settled.
EndEvent(p) ==
    /\ sock[p] \in {"open", "ended"}
    /\ sock' = [sock EXCEPT ![p] = "remoteEnded"]
    /\ \E mkdirThrows \in MayFail :
        /\ mkdirThrows => ~dirExists
        /\ IF mkdirThrows
           THEN /\ endPc' = [endPc EXCEPT ![p] = "crashed"]
                /\ UNCHANGED <<db, dirExists>>
           ELSE /\ dirExists' = TRUE
                /\ db' = [db EXCEPT ![p] = "open"]
                /\ endPc' = [endPc EXCEPT ![p] =
                       IF shards[MonthOf(currentTime[p])].exists THEN "begin" ELSE "createTable"]
    /\ UNCHANGED <<currentTime, channels, serverText, response, sentCmd, outcome, txn,
                   inserted, pollRuns, faults, shards, lock, yearly, readVars, aggVars>>

\* getMeasurementsDB after new Database(file, OPEN_READWRITE | OPEN_CREATE):
\* CREATE TABLE "Measurements", which fails when the table exists by now
CreateTable(p) ==
    /\ endPc[p] = "createTable"
    /\ LET m == MonthOf(currentTime[p]) IN
       IF shards[m].exists
       THEN /\ endPc' = [endPc EXCEPT ![p] = "crashed"]
            /\ UNCHANGED shards
       ELSE /\ shards' = [shards EXCEPT ![m] = [exists |-> TRUE, rows |-> <<>>]]
            /\ endPc' = [endPc EXCEPT ![p] = "begin"]
    /\ UNCHANGED <<sock, currentTime, channels, serverText, response, sentCmd, outcome, db, txn,
                   inserted, pollRuns, faults, dirExists, lock, yearly, readVars, aggVars>>

\* an end handler that stops at a refused BEGIN, for comparison with the one below
BeginRefusedStops(p) ==
    /\ endPc[p] = "begin"
    /\ LET m == MonthOf(currentTime[p]) IN
       \E refused \in MayFail :
        LET granted == ~refused /\ lock[m] = 0 IN
        /\ lock' = IF granted THEN [lock EXCEPT ![m] = p] ELSE lock
        /\ txn' = [txn EXCEPT ![p] = IF granted THEN "open" ELSE "refused"]
        /\ outcome' = [outcome EXCEPT ![p] = IF granted THEN @ ELSE Settle(p, "beginError")]
        /\ endPc' = [endPc EXCEPT ![p] = IF granted THEN "commit" ELSE "finished"]
    /\ UNCHANGED <<sock, currentTime, channels, serverText, response, sentCmd, db,
                   inserted, pollRuns, faults, dirExists, shards, yearly, readVars, aggVars>>

\* the answer to BEGIN EXCLUSIVE: refused when another connection holds the shard
\* (another poll, or a process outside the model); on success processMeasurements
\* queues the INSERTs, and in both cases COMMIT is sent
Begin(p) ==
    /\ endPc[p] = "begin"
    /\ LET m == MonthOf(currentTime[p]) IN
       \E refused \in MayFail :
        LET granted == ~refused /\ lock[m] = 0 IN
        /\ lock' = IF granted THEN [lock EXCEPT ![m] = p] ELSE lock
        /\ txn' = [txn EXCEPT ![p] = IF granted THEN "open" ELSE "refused"]
        /\ outcome' = [outcome EXCEPT ![p] = IF granted THEN @ ELSE Settle(p, "beginError")]
    /\ endPc' = [endPc EXCEPT ![p] = "commit"]
    /\ UNCHANGED <<sock, currentTime, channels, serverText, response, sentCmd, db,
                   inserted, pollRuns, faults, dirExists, shards, yearly, readVars, aggVars>>

\* an end handler that writes the table anew, for comparison with the one below
CommitReplacesRows(p) ==
    /\ endPc[p] = "commit"
    /\ LET m == MonthOf(currentTime[p])
           stmts == processMeasurements(Split(response[p]), 1, currentTime[p], channels[p])
           rows == ExecInserts(<<>>, stmts, 1)
       IN  \E failed \in MayFail :
            LET committed == ~failed /\ lock[m] = p IN
            /\ shards' = IF committed THEN [shards EXCEPT ![m].rows = rows] ELSE shards
            /\ inserted' = [inserted EXCEPT ![p] =
                   IF committed THEN {<<m, i>> : i \in 1 .. Len(rows)} ELSE @]
            /\ lock' = IF lock[m] = p THEN [lock EXCEPT ![m] = 0] ELSE lock
            /\ txn' = [txn EXCEPT ![p] =
                   IF committed THEN "committed"
                   ELSE IF @ = "open" THEN "commitFailed" ELSE @]
            /\ outcome' = [outcome EXCEPT ![p] =
                   IF committed THEN Settle(p, "done") ELSE Settle(p, "commitError")]
    /\ db' = [db EXCEPT ![p] = "closed"]
    /\ sock' = [sock EXCEPT ![p] = "destroyed"]
    /\ endPc' = [endPc EXCEPT ![p] = "finished"]
    /\ UNCHANGED <<currentTime, channels, serverText, response, sentCmd, pollRuns, faults,
                   dirExists, yearly, readVars, aggVars>>

\* an end handler that inserts and commits whether or not BEGIN was granted, for
\* comparison with the one below
CommitWithoutTransaction(p) ==
    /\ endPc[p] = "commit"
    /\ LET m == MonthOf(currentTime[p])
           stmts == processMeasurements(Split(response[p]), 1, currentTime[p], channels[p])
           rows == ExecInserts(shards[m].rows, stmts, 1)
       IN  \E failed \in MayFail :
            LET committed == ~failed IN
            /\ shards' = IF committed THEN [shards EXCEPT ![m].rows = rows] ELSE shards
            /\ inserted' = [inserted EXCEPT ![p] =
                   IF committed
                   THEN {<<m, i>> : i \in (Len(shards[m].rows) + 1) .. Len(rows)}
                   ELSE @]
            /\ lock' = [lock EXCEPT ![m] = 0]
            /\ txn' = [txn EXCEPT ![p] =
                   IF committed /\ @ = "open" THEN "committed"
                   ELSE IF @ = "open" THEN "commitFailed" ELSE @]
            /\ outcome' = [outcome EXCEPT ![p] =
                   IF committed THEN Settle(p, "done") ELSE Settle(p, "commitError")]
    /\ db' = [db EXCEPT ![p] = "closed"]
    /\ sock' = [sock EXCEPT ![p] = "destroyed"]
    /\ endPc' = [endPc EXCEPT ![p] = "finished"]
    /\ UNCHANGED <<currentTime, channels, serverText, response, sentCmd, pollRuns, faults,
                   dirExists, yearly, readVars, aggVars>>

\* a finally block that a failed COMMIT leaves, for comparison with the one below
CommitFailureLeaves(p) ==
    /\ endPc[p] = "commit"
    /\ LET m == MonthOf(currentTime[p])
           stmts == processMeasurements(Split(response[p]), 1, currentTime[p], channels[p])
           rows == ExecInserts(shards[m].rows, stmts, 1)
       IN  \E failed \in MayFail :
            LET committed == ~failed /\ lock[m] = p IN
            /\ shards' = IF committed THEN [shards EXCEPT ![m].rows = rows] ELSE shards
            /\ inserted' = [inserted EXCEPT ![p] =
                   IF committed
                   THEN {<<m, i>> : i \in (Len(shards[m].rows) + 1) .. Len(rows)}
                   ELSE @]
            /\ lock' = IF lock[m] = p THEN [lock EXCEPT ![m] = 0] ELSE lock
            /\ txn' = [txn EXCEPT ![p] =
                   IF committed THEN "committed"
                   ELSE IF @ = "open" THEN "commitFailed" ELSE @]
            /\ outcome' = [outcome EXCEPT ![p] =
                   IF committed THEN Settle(p, "done") ELSE Settle(p, "commitError")]
            /\ db' = [db EXCEPT ![p] = IF committed THEN "closed" ELSE @]
            /\ sock' = [sock EXCEPT ![p] = IF committed THEN "destroyed" ELSE @]
    /\ endPc' = [endPc EXCEPT ![p] = "finished"]
    /\ UNCHANGED <<currentTime, channels, serverText, response, sentCmd, pollRuns, faults,
                   dirExists, yearly, readVars, aggVars>>

\* the answer to COMMIT and the rest of the finally block: db.close(),
\* client.destroy(), resolve(true). Without a transaction COMMIT fails; a failed
\* COMMIT leaves the transaction to be rolled back by close.
Commit(p) ==
    /\ endPc[p] = "commit"
    /\ LET m == MonthOf(currentTime[p])
           stmts == processMeasurements(Split(response[p]), 1, currentTime[p], channels[p])
           rows == ExecInserts(shards[m].rows, stmts, 1)
       IN  \E failed \in MayFail :
            LET committed == ~failed /\ lock[m] = p IN
            /\ shards' = IF committed THEN [shards EXCEPT ![m].rows = rows] ELSE shards
            /\ inserted' = [inserted EXCEPT ![p] =
                   IF committed
                   THEN {<<m, i>> : i \in (Len(shards[m].rows) + 1) .. Len(rows)}
                   ELSE @]
            /\ lock' = IF lock[m] = p THEN [lock EXCEPT ![m] = 0] ELSE lock
            /\ txn' = [txn EXCEPT ![p] =
                   IF committed THEN "committed"
                   ELSE IF @ = "open" THEN "commitFailed" ELSE @]
            /\ outcome' = [outcome EXCEPT ![p] =
                   IF committed THEN Settle(p, "done") ELSE Settle(p, "commitError")]
    /\ db' = [db EXCEPT ![p] = "closed"]
    /\ sock' = [sock EXCEPT ![p] = "destroyed"]
    /\ endPc' = [endPc EXCEPT ![p] = "finished"]
    /\ UNCHANGED <<currentTime, channels, serverText, response, sentCmd, pollRuns, faults,
                   dirExists, yearly, readVars, aggVars>>

\* ================================================== getMeasurementsFromDBs
FilterChannels == {0, 13}
NoFilter == [kind |-> "none", one |-> 0, set |-> {}]
\* channel?: number | number[]
Filters ==
    {NoFilter}
    \cup {[kind |-> "one", one |-> c, set |-> {}] : c \in FilterChannels}
    \cup {[kind |-> "set", one |-> 0, set |-> S] : S \in {{}, FilterChannels}}

\* if (channel): undefined and the number 0 are falsy, an array is truthy
Truthy(f) == f.kind = "set" \/ (f.kind = "one" /\ f.one # 0)

\* where recorded_time between ? and ? [and channel in (...) | and channel=?]
Selected(row, from, to, f) ==
    /\ from <= row.recorded_time
    /\ row.recorded_time <= to
    /\ Truthy(f) => IF f.kind = "set" THEN row.channel \in f.set ELSE row.channel = f.one

\* the answers SQLite may give to the select: the selected rows in an order
\* that agrees with "order by recorded_time, channel"
QueryResults(rows, from, to, f) ==
    LET sel == {i \in 1 .. Len(rows) : Selected(rows[i], from, to, f)}
        n == Cardinality(sel)
    IN  {[k \in 1 .. n |-> rows[s[k]]] :
            s \in {s \in [1 .. n -> sel] :
                      /\ \A a, b \in 1 .. n : a < b => s[a] # s[b]
                      /\ \A a, b \in 1 .. n : a < b => InOrder(rows[s[a]], rows[s[b]])}}

\* a loop that stops before the month that starts at toDate, for comparison with
\* the loop condition below
ReadLoopConditionBeforeOnly(iterator, to) == iterator < to

\* monthlyIterator.isBefore(toDate) || monthlyIterator.isSame(toDate)
ReadLoopCondition(iterator, to) == iterator < to \/ iterator = to

\* new Database(dbFile): the default mode opens the file and creates it when it
\* is missing
OpenOrCreate(store) == IF store.exists THEN store ELSE [exists |-> TRUE, rows |-> <<>>]

\* the caller reads between polls
ReadStart ==
    /\ rdPc = "idle"
    /\ \A p \in Polls : PollOver(p)
    /\ \E from \in Clock, to \in Clock, f \in Filters :
        /\ fromDate' = from
        /\ toDate' = to
        /\ channelFilter' = f
        /\ monthlyIterator' = MonthStartOf(from)
    /\ rdResult' = <<>>
    /\ rdFailed' = {}
    /\ rdOpen' = {}
    /\ rdPc' = "loop"
    /\ UNCHANGED <<pollVars, storeVars, aggVars>>

\* a loop that opens the file of every month, for comparison with the loop below
ReadShardWithoutExistsTest ==
    /\ rdPc = "loop"
    /\ ReadLoopCondition(monthlyIterator, toDate)
    /\ LET m == MonthOf(monthlyIterator) IN
       IF m \in Months
       THEN /\ shards' = [shards EXCEPT ![m] = OpenOrCreate(@)]
            /\ rdOpen' = rdOpen \cup {<<"monthly", m>>}
            /\ rdPc' = "query"
            /\ UNCHANGED monthlyIterator
       ELSE /\ monthlyIterator' = monthlyIterator + TicksPerMonth
            /\ UNCHANGED <<shards, rdOpen, rdPc>>
    /\ UNCHANGED <<fromDate, toDate, channelFilter, rdResult, rdFailed, pollVars,
                   dirExists, lock, yearly, aggVars>>

\* one turn of the while loop up to the await: the file of a shard that exists is
\* opened and the select is sent; without the file the iterator moves to the next
\* month
ReadShard ==
    /\ rdPc = "loop"
    /\ ReadLoopCondition(monthlyIterator, toDate)
    /\ LET m == MonthOf(monthlyIterator) IN
       IF m \in Months /\ shards[m].exists
       THEN /\ shards' = [shards EXCEPT ![m] = OpenOrCreate(@)]
            /\ rdOpen' = rdOpen \cup {<<"monthly", m>>}
            /\ rdPc' = "query"
            /\ UNCHANGED monthlyIterator
       ELSE /\ monthlyIterator' = monthlyIterator + TicksPerMonth
            /\ UNCHANGED <<shards, rdOpen, rdPc>>
    /\ UNCHANGED <<fromDate, toDate, channelFilter, rdResult, rdFailed, pollVars,
                   dirExists, lock, yearly, aggVars>>

\* a loop turn that closes the handle only after an answered query, for comparison
\* with the one below
ReadAnswerWithoutFinally ==
    /\ rdPc = "query"
    /\ LET m == MonthOf(monthlyIterator) IN
       \E answered \in BOOLEAN :
        /\ answered => lock[m] = 0
        /\ IF answered
           THEN /\ \E rs \in QueryResults(shards[m].rows, fromDate, toDate, channelFilter) :
                     rdResult' = rdResult \o rs
                /\ rdOpen' = rdOpen \ {<<"monthly", m>>}
                /\ UNCHANGED rdFailed
           ELSE /\ rdFailed' = rdFailed \cup {m}
                /\ UNCHANGED <<rdResult, rdOpen>>
    /\ monthlyIterator' = monthlyIterator + TicksPerMonth
    /\ rdPc' = "loop"
    /\ UNCHANGED <<fromDate, toDate, channelFilter, pollVars, storeVars, aggVars>>

\* the rest of the loop turn: the rows of the answer are pushed, or the error of
\* a failed query is logged; the handle is closed and the iterator moves on
ReadAnswer ==
    /\ rdPc = "query"
    /\ LET m == MonthOf(monthlyIterator) IN
       \E answered \in BOOLEAN :
        /\ answered => lock[m] = 0
        /\ IF answered
           THEN /\ \E rs \in QueryResults(shards[m].rows, fromDate, toDate, channelFilter) :
                     rdResult' = rdResult \o rs
                /\ UNCHANGED rdFailed
           ELSE /\ rdFailed' = rdFailed \cup {m}
                /\ UNCHANGED rdResult
        /\ rdOpen' = rdOpen \ {<<"monthly", m>>}
    /\ monthlyIterator' = monthlyIterator + TicksPerMonth
    /\ rdPc' = "loop"
    /\ UNCHANGED <<fromDate, toDate, channelFilter, pollVars, storeVars, aggVars>>

ReadReturn ==
    /\ rdPc = "loop"
    /\ ~ReadLoopCondition(monthlyIterator, toDate)
    /\ rdPc' = "done"
    /\ UNCHANGED <<fromDate, toDate, channelFilter, monthlyIterator, rdResult, rdFailed,
                   rdOpen, pollVars, storeVars, aggVars>>

\* the caller is done with the result
ReadRelease ==
    /\ rdPc \in {"done", "yearlyDone"}
    /\ rdPc' = "idle"
    /\ fromDate' = 0
    /\ toDate' = 0
    /\ channelFilter' = NoFilter
    /\ monthlyIterator' = 0
    /\ rdResult' = <<>>
    /\ rdFailed' = {}
    /\ rdOpen' = {}
    /\ UNCHANGED <<pollVars, storeVars, aggVars>>

\* ============================================ getYearlyMeasurementsFromDBs
\* up to the await: the file of the year of fromDate, when it exists, is opened
\* and the select is sent; without the file the empty result is returned
YearlyStart ==
    /\ rdPc = "idle"
    /\ \A p \in Polls : PollOver(p)
    /\ \E from \in Clock, to \in Clock, f \in Filters :
        /\ fromDate' = from
        /\ toDate' = to
        /\ channelFilter' = f
        /\ LET y == YearOf(from) IN
           IF yearly[y].exists
           THEN /\ yearly' = [yearly EXCEPT ![y] = OpenOrCreate(@)]
                /\ rdOpen' = {<<"yearly", y>>}
                /\ rdPc' = "yearlyQuery"
           ELSE /\ rdOpen' = {}
                /\ rdPc' = "yearlyDone"
                /\ UNCHANGED yearly
    /\ rdResult' = <<>>
    /\ rdFailed' = {}
    /\ UNCHANGED <<monthlyIterator, pollVars, dirExists, shards, lock, aggVars>>

\* the answer: its rows are pushed, or the error is logged; the handle is closed
\* and the result returned
YearlyAnswer ==
    /\ rdPc = "yearlyQuery"
    /\ LET y == YearOf(fromDate) IN
       \E answered \in BOOLEAN :
        /\ IF answered
           THEN /\ \E rs \in QueryResults(yearly[y].rows, fromDate, toDate, channelFilter) :
                     rdResult' = rs
                /\ UNCHANGED rdFailed
           ELSE /\ rdFailed' = {y}
                /\ UNCHANGED rdResult
        /\ rdOpen' = rdOpen \ {<<"yearly", y>>}
    /\ rdPc' = "yearlyDone"
    /\ UNCHANGED <<fromDate, toDate, channelFilter, monthlyIterator, pollVars, storeVars,
                   aggVars>>

\* ================================================ getMeasurementsDB(.., false)
\* a call with create disabled, which has no await: without the file there is no
\* Database and nothing is made; the file that exists is opened OPEN_READWRITE
GetMeasurementsDBNoCreate ==
    /\ rdPc = "idle"
    /\ \A p \in Polls : PollOver(p)
    /\ \E m \in Months :
        /\ monthlyIterator' = m * TicksPerMonth
        /\ rdOpen' = IF shards[m].exists THEN {<<"monthly", m>>} ELSE {}
    /\ rdPc' = "opened"
    /\ UNCHANGED <<fromDate, toDate, channelFilter, rdResult, rdFailed, pollVars, storeVars,
                   aggVars>>

\* the caller closes the Database it got, if any
CloseOpened ==
    /\ rdPc = "opened"
    /\ rdPc' = "idle"
    /\ monthlyIterator' = 0
    /\ rdOpen' = {}
    /\ UNCHANGED <<fromDate, toDate, channelFilter, rdResult, rdFailed, pollVars, storeVars,
                   aggVars>>

\* ========================================================= specifications
\* the aggregation engine on its own
AggIdle ==
    /\ InitAgg
    /\ details = "hourly"
    /\ isAggregation = FALSE

NextAgg ==
    \/ GetDetailsForEach
    \/ GetDetailsReturn
    \/ GetAvgSum

InitSpecAgg == InitAgg /\ InitPoll /\ InitStore /\ InitRead /\ faults = FALSE

SpecAgg == InitSpecAgg /\ [][NextAgg]_vars

\* the polls of one device, one after the other
NextPoll ==
    \E p \in OnePoll :
        \/ StartPoll(p)
        \/ Connect(p)
        \/ Timeout(p)
        \/ SocketError(p)
        \/ Data(p)
        \/ EndEvent(p)
        \/ CreateTable(p)
        \/ Begin(p)
        \/ Commit(p)

InitSpecPoll == AggIdle /\ InitPoll /\ InitStore /\ InitRead /\ faults = TRUE

SpecPoll == InitSpecPoll /\ [][NextPoll]_vars

\* polls in an environment without failures, and range reads between them, on the
\* shards of one device
NextStore ==
    \/ \E p \in OnePoll :
        \/ StartPoll(p)
        \/ Connect(p)
        \/ Data(p)
        \/ EndEvent(p)
        \/ CreateTable(p)
        \/ Begin(p)
        \/ Commit(p)
    \/ ReadStart
    \/ ReadShard
    \/ ReadAnswer
    \/ ReadReturn
    \/ ReadRelease

InitSpecStore == AggIdle /\ InitPoll /\ InitStore /\ InitRead /\ faults = FALSE

SpecStore == InitSpecStore /\ [][NextStore]_vars

\* one poll after the other in an environment without failures; the event loop
\* runs the continuation of every await of the end handler
NextSession ==
    \E p \in OnePoll :
        \/ StartPoll(p)
        \/ Connect(p)
        \/ Data(p)
        \/ EndEvent(p)
        \/ CreateTable(p)
        \/ Begin(p)
        \/ Commit(p)

SessionFairness ==
    \A p \in OnePoll :
        /\ WF_vars(CreateTable(p))
        /\ WF_vars(Begin(p))
        /\ WF_vars(Commit(p))

SpecSession == InitSpecStore /\ [][NextSession]_vars /\ SessionFairness

\* The reads on the files earlier runs of the program and of the yearly
\* aggregation left: the rows a shard holds after a poll at T received text
ShardAfter(rows, text, T, enabled) ==
    [exists |-> TRUE,
     rows |-> ExecInserts(rows, processMeasurements(Split(text), 1, T, enabled), 1)]

WholeText == Line(Channel13, 3) \o Line(Channel0, 2)

SeedShards ==
    LET first == ShardAfter(<<>>, WholeText, 1, {Channel0, Channel13})
        more == ShardAfter(first.rows, WholeText, TicksPerHour, {Channel13})
        next == ShardAfter(<<>>, WholeText, TicksPerMonth, {Channel0, Channel13})
    IN  { [m \in Months |-> NoShard],
          [m \in Months |-> IF m = 0 THEN more ELSE NoShard],
          [m \in Months |-> IF m = 0 THEN first ELSE IF m = 1 THEN next ELSE NoShard] }

\* a yearly store is written by another program, with the rows of the table
\* Measurements
SeedYearly ==
    [Years -> {NoShard,
               [exists |-> TRUE, rows |-> <<Row(1, 13, 3000, 0), Row(2, 0, 2000, 0),
                                            Row(3, 0, 4000, TicksPerHour)>>]}]

InitSpecReads ==
    /\ AggIdle
    /\ InitPoll
    /\ InitRead
    /\ faults = FALSE
    /\ shards \in SeedShards
    /\ yearly \in SeedYearly
    /\ dirExists = \/ \E m \in Months : shards[m].exists
                   \/ \E y \in Years : yearly[y].exists
    /\ lock = [m \in Months |-> 0]

NextReads ==
    \/ ReadStart
    \/ ReadShard
    \/ ReadAnswer
    \/ ReadReturn
    \/ ReadRelease
    \/ YearlyStart
    \/ YearlyAnswer

SpecReads == InitSpecReads /\ [][NextReads]_vars

\* polls of one device that overlap, in an environment without other failures
NextPolls ==
    \E p \in Polls :
        \/ StartPoll(p)
        \/ Connect(p)
        \/ Data(p)
        \/ EndEvent(p)
        \/ CreateTable(p)
        \/ Begin(p)
        \/ Commit(p)

SpecPolls == InitSpecStore /\ [][NextPolls]_vars

\* one poll after the other, and between them calls that open a shard with
\* creation disabled
NextShards ==
    \/ \E p \in OnePoll :
        \/ StartPoll(p)
        \/ Connect(p)
        \/ Data(p)
        \/ EndEvent(p)
        \/ CreateTable(p)
        \/ Begin(p)
        \/ Commit(p)
    \/ GetMeasurementsDBNoCreate
    \/ CloseOpened

SpecShards == InitSpecStore /\ [][NextShards]_vars

\* the polls of one device with failures, where the inactivity timer fires when
\* the socket stays idle and the event loop runs the continuation of every await
PollFairness ==
    \A p \in OnePoll :
        /\ WF_vars(Timeout(p))
        /\ WF_vars(CreateTable(p))
        /\ WF_vars(Begin(p))
        /\ WF_vars(Commit(p))

SpecPollFair == InitSpecPoll /\ [][NextPoll]_vars /\ PollFairness


\* ------------------------------------------------- readings of the result
\* the diff records of the result (a baseline record has no interval)
IsDiffRecord(r) == r.from_time # NoTime
DiffIndexes(c) == {i \in 1 .. Len(result) : result[i].channel = c /\ IsDiffRecord(result[i])}

RECURSIVE SumDiffsFrom(_, _)
SumDiffsFrom(c, i) ==
    IF i > Len(result) THEN 0
    ELSE (IF i \in DiffIndexes(c) THEN result[i].diff ELSE 0) + SumDiffsFrom(c, i + 1)
SumDiffs(c) == SumDiffsFrom(c, 1)

\* the input positions of channel c
Observations(c) == {i \in 1 .. Len(measurements) : measurements[i].channel = c}
FirstObs(c) == measurements[CHOOSE i \in Observations(c) : \A j \in Observations(c) : i <= j]
LastObs(c) == measurements[CHOOSE i \in Observations(c) : \A j \in Observations(c) : i >= j]

NonDecreasing(c) ==
    \A i, j \in Observations(c) :
        i < j => measurements[i].measured_value <= measurements[j].measured_value

Abs(x) == IF x < 0 THEN 0 - x ELSE x

GetDetailsReturned == aggPc \in {"done", "summed"}
HourlyDiffRun ==
    /\ GetDetailsReturned
    /\ details = "hourly"
    /\ ~isAggregation
    /\ \A c \in AggChannels : NonDecreasing(c)

\* ------------------------------------------------------------------ claims
\* C1 (as stated): hourly mode without baseline records, on an input whose
\* channels are non-decreasing: every diff is >= 0 and the diffs of a channel sum
\* to its last value minus its first value.
OrigC1 ==
    HourlyDiffRun =>
        /\ \A i \in 1 .. Len(result) : result[i].diff >= 0
        /\ \A c \in AggChannels :
            Observations(c) # {} =>
                SumDiffs(c) = LastObs(c).measured_value - FirstObs(c).measured_value

\* C1 (amended): every diff is >= 0; each diff is rounded to four decimals, so the
\* sum of a channel's diffs is within 0.00005 per diff record of last minus first,
\* and equal to it when all the channel's values are multiples of 0.0001.
AmendedC1 ==
    HourlyDiffRun =>
        /\ \A i \in 1 .. Len(result) : result[i].diff >= 0
        /\ \A c \in AggChannels :
            Observations(c) # {} =>
                LET delta == LastObs(c).measured_value - FirstObs(c).measured_value IN
                /\ 2 * Abs(SumDiffs(c) - delta) <= Frac * Cardinality(DiffIndexes(c))
                /\ Cardinality(DiffIndexes(c)) = Cardinality(Observations(c)) - 1
                /\ (\A i \in Observations(c) : measurements[i].measured_value % Frac = 0)
                       => SumDiffs(c) = delta

WitnessC1 ==
    /\ HourlyDiffRun
    /\ \E c \in AggChannels :
        /\ Cardinality(DiffIndexes(c)) >= 2
        /\ LastObs(c).measured_value > FirstObs(c).measured_value
        /\ \E i \in Observations(c) : measurements[i].measured_value % Frac # 0

\* C6: a trailing flush is emitted only when no bucket was closed during the whole
\* run and some channel had more than one observation.
OrigC6 ==
    [][(aggPc = "loop" /\ aggPc' = "done" /\ Len(result') > Len(result)) =>
            /\ \A i \in 1 .. Len(result) : ~IsDiffRecord(result[i])
            /\ \E c \in AggChannels : Cardinality(Observations(c)) > 1]_vars

\* C7: in daily mode a reading of channel c closes a bucket only when its day
\* start is at least one day after the day start of c's own baseline.
OrigC7 ==
    [][(/\ details = "daily"
        /\ aggPc = "loop" /\ aggPc' = "loop"
        /\ Len(measurements') > Len(measurements)
        /\ Len(result') > Len(result)
        /\ prevElement[measurements'[Len(measurements')].channel] # UndefinedRec) =>
            LET element == measurements'[Len(measurements')]
                baseline == prevElement[element.channel]
            IN  DayStart(element.recorded_time) - DayStart(baseline.recorded_time) >= HoursPerDay]_vars

\* C8: daily mode without baseline records, exactly two readings of one channel on
\* different calendar days: exactly one derived record, the diff between the two.
TwoReadingsOnDifferentDays ==
    /\ GetDetailsReturned
    /\ details = "daily"
    /\ ~isAggregation
    /\ Len(measurements) = 2
    /\ measurements[1].channel = measurements[2].channel
    /\ DayStart(measurements[1].recorded_time) # DayStart(measurements[2].recorded_time)

TheoremC8 ==
    TwoReadingsOnDifferentDays =>
        /\ Len(result) = 1
        /\ result[1].channel = measurements[2].channel
        /\ result[1].from_time = measurements[1].recorded_time
        /\ result[1].to_time = measurements[2].recorded_time
        /\ result[1].diff =
               RoundToFourDecimals(measurements[2].measured_value - measurements[1].measured_value)

\* two readings with several midnights between them
WitnessC8 ==
    /\ TwoReadingsOnDifferentDays
    /\ DayStart(measurements[2].recorded_time) - DayStart(measurements[1].recorded_time)
           >= 2 * HoursPerDay
    /\ Len(result) = 1

\* C9: summarize returns per channel the sum of the hourly diffs, the number of
\* diff records as count, and sum / count (rounded to four decimals) as avg.
OrigC9 ==
    aggPc = "summed" =>
        \A c \in AggChannels :
            DiffIndexes(c) # {} =>
                \E k \in 1 .. Len(avgSum) :
                    /\ avgSum[k].channel = c
                    /\ avgSum[k].sum = SumDiffs(c)
                    /\ avgSum[k].count = Cardinality(DiffIndexes(c))
                    /\ avgSum[k].avg = RoundedQuotient(SumDiffs(c), Cardinality(DiffIndexes(c)))

\* ------------------------------------------------------------------ polls
\* the text holds a whole line of channel 13: its tag, a value, the line feed
HoldsChannel13Line(text) ==
    \E i \in 1 .. Len(text) :
        /\ text[i] = Tag(Channel13)
        /\ i + 2 <= Len(text)
        /\ text[i + 1].kind = "num"
        /\ text[i + 2] = NL

\* C2, as stated: once the received text holds the line of channel 13, wherever
\* that line stands, the client has closed its side of the connection: the
\* socket is not left open after the data handler.
OrigC2 ==
    \A p \in Polls : HoldsChannel13Line(response[p]) => sock[p] # "open"

\* the poll has reported an outcome and none of its handlers is running
Reported(p) == outcome[p] \notin {"idle", "pending"} /\ ~HandlerRunning(p)

\* C5, as stated: once a poll has reported its outcome and finished its handlers,
\* its socket is closed or destroyed (or at least closed from one side) and the
\* store handle it opened is closed.
OrigC5 ==
    \A p \in Polls :
        Reported(p) => sock[p] \notin {"connecting", "open"} /\ db[p] # "open"

\* ------------------------------------------------------------------ reads
\* the lines "channel_<n> : <decimal>" of a text whose channel is enabled
ValidEnabledLines(text, enabled) ==
    {i \in 1 .. Len(text) :
        /\ text[i].kind = "tag"
        /\ text[i].label \in enabled
        /\ i = 1 \/ text[i - 1] = NL
        /\ i + 1 <= Len(text)
        /\ text[i + 1].kind = "num"}

\* the places in the result of the read of the rows poll p added
ReadBackOf(p) ==
    {k \in 1 .. Len(rdResult) :
        <<MonthOf(rdResult[k].recorded_time), rdResult[k].id>> \in inserted[p]}

\* a finished read without channel filter whose query of the shard of T answered
ReadOfShardDone(p) ==
    /\ rdPc = "done"
    /\ channelFilter = NoFilter
    /\ MonthOf(currentTime[p]) \notin rdFailed

\* the rows poll p added are N rows of the shard of T, stamped with hour
AddedRows(p, N, hour) ==
    /\ Cardinality(inserted[p]) = N
    /\ \A r \in inserted[p] :
        /\ r[1] = MonthOf(currentTime[p])
        /\ shards[r[1]].exists
        /\ r[2] \in 1 .. Len(shards[r[1]].rows)
        /\ shards[r[1]].rows[r[2]].id = r[2]
        /\ shards[r[1]].rows[r[2]].recorded_time = hour

\* the read returned each row the poll added once, and N of them
ReadBackExactly(p, N) ==
    /\ Cardinality(ReadBackOf(p)) = N
    /\ \A r \in inserted[p] :
        \E k \in ReadBackOf(p) : rdResult[k] = shards[r[1]].rows[r[2]]

\* C3, as stated: a poll at T with N valid lines of enabled channels that
\* reported Done has added N rows to the shard of T, each stamped with T truncated
\* to the hour, and a later read of a range that covers T returns those N rows.
OrigC3 ==
    \A p \in Polls :
        outcome[p] = "done" =>
            LET T == currentTime[p]
                N == Cardinality(ValidEnabledLines(response[p], channels[p]))
            IN  /\ AddedRows(p, N, (T \div TicksPerHour) * TicksPerHour)
                /\ (ReadOfShardDone(p) /\ fromDate <= T /\ T <= toDate)
                       => ReadBackExactly(p, N)

\* C3, amended: the same, for a later read of a range that covers T truncated to
\* the hour, which is the time the rows carry.
AmendedC3 ==
    \A p \in Polls :
        outcome[p] = "done" =>
            LET T == currentTime[p]
                hour == (T \div TicksPerHour) * TicksPerHour
                N == Cardinality(ValidEnabledLines(response[p], channels[p]))
            IN  /\ AddedRows(p, N, hour)
                /\ (ReadOfShardDone(p) /\ fromDate <= hour /\ hour <= toDate)
                       => ReadBackExactly(p, N)

\* C3: a poll past the hour added two rows to a shard that held rows, and a
\* read of a range that starts after the beginning of the shard returned them
WitnessC3 ==
    \E p \in Polls :
        LET T == currentTime[p]
            hour == (T \div TicksPerHour) * TicksPerHour
        IN  /\ outcome[p] = "done"
            /\ Cardinality(ValidEnabledLines(response[p], channels[p])) = 2
            /\ T # hour
            /\ Len(shards[MonthOf(T)].rows) > 2
            /\ ReadOfShardDone(p)
            /\ fromDate > 0
            /\ fromDate <= hour
            /\ hour <= toDate
            /\ Len(rdResult) >= 2

\* C4, as stated: a read with a channel set returns only rows of the channels of
\* the set, and a read with one channel number returns only rows of that channel.
OrigC4 ==
    rdPc = "done" =>
        \A k \in 1 .. Len(rdResult) :
            /\ channelFilter.kind = "set" => rdResult[k].channel \in channelFilter.set
            /\ channelFilter.kind = "one" => rdResult[k].channel = channelFilter.one

\* the rows a read of [from, to] is to return: those of the existing shards of
\* the months of from .. to that answered, with recorded_time in the range
RowsInRange(from, to) ==
    UNION {{shards[m].rows[i] : i \in {i \in 1 .. Len(shards[m].rows) :
                                   /\ from <= shards[m].rows[i].recorded_time
                                   /\ shards[m].rows[i].recorded_time <= to}} :
           m \in {m \in Months : /\ shards[m].exists
                                 /\ m \notin rdFailed
                                 /\ from \div TicksPerMonth <= m
                                 /\ m <= to \div TicksPerMonth}}

\* C10: the result of a read without channel filter holds exactly the rows of
\* the existing shards of the months of fromDate .. toDate whose recorded_time is
\* in [fromDate, toDate], each once (a shard whose query failed gives none); the
\* rows of earlier months come first and the rows of one shard are ordered by
\* (recorded_time, channel).
TheoremC10 ==
    (rdPc = "done" /\ channelFilter = NoFilter) =>
        /\ {rdResult[k] : k \in 1 .. Len(rdResult)} = RowsInRange(fromDate, toDate)
        /\ Len(rdResult) = Cardinality(RowsInRange(fromDate, toDate))
        /\ \A a, b \in 1 .. Len(rdResult) :
            a < b =>
                LET ma == rdResult[a].recorded_time \div TicksPerMonth
                    mb == rdResult[b].recorded_time \div TicksPerMonth
                IN  \/ ma < mb
                    \/ /\ ma = mb
                       /\ \/ rdResult[a].recorded_time < rdResult[b].recorded_time
                          \/ /\ rdResult[a].recorded_time = rdResult[b].recorded_time
                             /\ rdResult[a].channel <= rdResult[b].channel

\* C10: a read from within the first month up to the first instant of the second
\* month returned rows of both shards
WitnessC10 ==
    /\ rdPc = "done"
    /\ channelFilter = NoFilter
    /\ rdFailed = {}
    /\ toDate = TicksPerMonth
    /\ \E a, b \in 1 .. Len(rdResult) :
        rdResult[a].recorded_time \div TicksPerMonth
            < rdResult[b].recorded_time \div TicksPerMonth
    /\ fromDate > 0
    /\ Len(rdResult) >= 3

\* ------------------------------------------------------- failures of a poll
\* C13: a socket error or the inactivity timeout on a poll that has not reported
\* yet rejects it with that error, and a poll rejected with a socket error or a
\* timeout keeps that outcome: nothing the poll does later reports Done.
TheoremC13 ==
    [][\A p \in Polls :
        /\ Timeout(p) => outcome'[p] = "timeout"
        /\ (SocketError(p) /\ outcome[p] = "pending") => outcome'[p] = "socketError"
        /\ (outcome[p] \in {"timeout", "socketError"} /\ pollRuns' = pollRuns)
               => outcome'[p] = outcome[p]]_vars

\* C13: after the timeout the server closed the connection and the end handler
\* committed and called resolve(true); the poll still reports the timeout
WitnessC13 ==
    \E p \in Polls :
        /\ outcome[p] = "timeout"
        /\ txn[p] = "committed"
        /\ endPc[p] = "finished"

NoSentinelIn(text) == \A i \in 1 .. Len(text) : text[i] # Tag(Channel13)

\* C14: when the server closes the connection and the text received holds no
\* sentinel, the poll goes on to write what it received and reports Done, with
\* one row added to the shard of T for each received line "channel_<n> :
\* <decimal>" of an enabled channel.
TheoremC14 ==
    \A p \in OnePoll :
        (sock[p] = "remoteEnded" /\ NoSentinelIn(response[p]))
            ~> /\ outcome[p] = "done"
               /\ endPc[p] = "finished"
               /\ AddedRows(p, Cardinality(ValidEnabledLines(response[p], channels[p])),
                            (currentTime[p] \div TicksPerHour) * TicksPerHour)

\* C14: the server closed after the line of channel 0 alone, and the poll
\* reported Done with the row of that line
WitnessC14 ==
    \E p \in OnePoll :
        /\ outcome[p] = "done"
        /\ NoSentinelIn(response[p])
        /\ Len(response[p]) < Len(serverText[p])
        /\ Cardinality(inserted[p]) = 1
        /\ Len(shards[MonthOf(currentTime[p])].rows) > 1

\* ------------------------------------------------------------- the parser
\* processMeasurements has run in the end handler of poll p
Parsed(p) == endPc[p] \in {"commit", "finished"} /\ txn[p] \in {"open", "committed", "commitFailed"}

\* C18, as stated: the parser produces a reading for a line if and only if the
\* line is "channel_<n> : <decimal>" with n enabled, the reading carrying that
\* channel, the decimal x 1000 and T truncated to the hour; every other line
\* produces nothing: no reading and no statement that fails.
OrigC18 ==
    \A p \in Polls :
        Parsed(p) =>
            LET text == response[p]
                stmts == processMeasurements(Split(text), 1, currentTime[p], channels[p])
                valid == ValidEnabledLines(text, channels[p])
            IN  /\ Len(stmts) = Cardinality(valid)
                /\ \A k \in 1 .. Len(stmts) :
                    /\ ~stmts[k].nan
                    /\ stmts[k].recorded_time = (currentTime[p] \div TicksPerHour) * TicksPerHour
                    /\ \E i \in valid :
                        /\ Cardinality({j \in valid : j < i}) = k - 1
                        /\ stmts[k].measured_value = text[i + 1].val * 1000
                        /\ text[i].label \in
                               {<<stmts[k].channel>>,
                                <<stmts[k].channel \div 10, stmts[k].channel % 10>>}

\* ------------------------------------------------------ polls that overlap
\* the polls between a granted BEGIN EXCLUSIVE and its COMMIT on the shard of m
Writers(m) == {p \in Polls : txn[p] = "open" /\ MonthOf(currentTime[p]) = m}

\* C12: in every interleaving of polls on one shard at most one poll at a time is
\* between a granted BEGIN EXCLUSIVE and its COMMIT; a poll whose BEGIN EXCLUSIVE
\* was refused has inserted no row, and neither its BEGIN nor its COMMIT changes
\* the shard, the lock or the transaction of another poll.
TheoremC12 ==
    /\ [](\A m \in Months : Cardinality(Writers(m)) <= 1)
    /\ [](\A p \in Polls : txn[p] = "refused" => inserted[p] = {})
    /\ [][\A p \in Polls :
            ((Begin(p) /\ txn'[p] = "refused") \/ (Commit(p) /\ txn[p] = "refused")) =>
                /\ shards' = shards
                /\ lock' = lock
                /\ \A q \in Polls \ {p} : txn'[q] = txn[q]]_vars

\* C12: two polls on one shard, both with lines to insert: the BEGIN of one was
\* refused and it has finished, while the transaction of the other is still open
WitnessC12 ==
    \E p, q \in Polls :
        /\ p # q
        /\ MonthOf(currentTime[p]) = MonthOf(currentTime[q])
        /\ txn[p] = "open"
        /\ lock[MonthOf(currentTime[p])] = p
        /\ txn[q] = "refused"
        /\ endPc[q] = "finished"
        /\ outcome[q] = "beginError"
        /\ ValidEnabledLines(response[p], channels[p]) # {}
        /\ ValidEnabledLines(response[q], channels[q]) # {}

\* ------------------------------------------------------- reads and storage
\* the months a range read of [from, to] visits
MonthsOfRange(from, to) == {m \in Months : from \div TicksPerMonth <= m /\ m <= to \div TicksPerMonth}

\* C11: no step of a range read or of a yearly read creates a monthly or yearly
\* store or the directory, and none adds, changes or removes a row; a month
\* without shard gives no rows and is no failure, and a yearly read of a year
\* without store returns the empty result and is no failure.
TheoremC11 ==
    /\ [][/\ shards' = shards
          /\ yearly' = yearly
          /\ dirExists' = dirExists]_vars
    /\ [](rdPc = "done" =>
            /\ \A m \in Months : ~shards[m].exists => m \notin rdFailed
            /\ \A k \in 1 .. Len(rdResult) :
                \E m \in MonthsOfRange(fromDate, toDate) :
                    /\ shards[m].exists
                    /\ \E i \in 1 .. Len(shards[m].rows) : shards[m].rows[i] = rdResult[k])
    /\ [](rdPc = "yearlyDone" =>
            /\ rdOpen = {}
            /\ ~yearly[fromDate \div TicksPerYear].exists => rdResult = <<>> /\ rdFailed = {})

\* C11: a range read over a month with shard and a month without returned the
\* rows of the first, and there is a year without yearly store
WitnessC11 ==
    /\ rdPc = "done"
    /\ rdFailed = {}
    /\ Len(rdResult) > 0
    /\ \E m \in MonthsOfRange(fromDate, toDate) : ~shards[m].exists
    /\ \E y \in Years : ~yearly[y].exists

\* C17: when the query of a month shard fails, the step that takes the failure
\* adds no row, closes the handle of that shard and leaves the read in its loop;
\* the finished read holds no handle, returns no row of a failed shard and,
\* without channel filter, exactly the rows in range of the other shards.
TheoremC17 ==
    /\ [][(ReadAnswer /\ rdFailed' # rdFailed) =>
            /\ rdResult' = rdResult
            /\ <<"monthly", MonthOf(monthlyIterator)>> \notin rdOpen'
            /\ rdPc' = "loop"]_vars
    /\ [](rdPc = "done" =>
            /\ rdOpen = {}
            /\ \A k \in 1 .. Len(rdResult) :
                rdResult[k].recorded_time \div TicksPerMonth \notin rdFailed
            /\ channelFilter = NoFilter =>
                {rdResult[k] : k \in 1 .. Len(rdResult)} = RowsInRange(fromDate, toDate))

\* C17: the query of the first month failed, that shard holds rows in the range,
\* and the read returned the rows of the second month
WitnessC17 ==
    /\ rdPc = "done"
    /\ channelFilter = NoFilter
    /\ rdFailed = {0}
    /\ \E i \in 1 .. Len(shards[0].rows) :
        /\ fromDate <= shards[0].rows[i].recorded_time
        /\ shards[0].rows[i].recorded_time <= toDate
    /\ Len(rdResult) >= 2

BaselineIndexes(c) ==
    {i \in 1 .. Len(result) : result[i].channel = c /\ ~IsDiffRecord(result[i])}

\* C20: the step that consumes the first observation of a channel adds no diff
\* record: with includeBaseline it appends one record that carries the reading
\* and diff 0, without it the result stays as it is. So with includeBaseline the
\* result holds exactly one baseline record for each channel of the input, equal
\* to the channel's first observation and placed before the channel's diff
\* records, and without includeBaseline it holds none.
TheoremC20 ==
    /\ [][(Len(measurements') = Len(measurements) + 1
             /\ Observations(measurements'[Len(measurements')].channel) = {}) =>
            LET e == measurements'[Len(measurements')] IN
            result' = IF isAggregation
                      THEN Append(result, [recorded_time |-> e.recorded_time,
                                           measured_value |-> e.measured_value,
                                           channel |-> e.channel, diff |-> 0,
                                           from_time |-> NoTime, to_time |-> NoTime])
                      ELSE result]_vars
    /\ [](\A c \in AggChannels :
            /\ Cardinality(BaselineIndexes(c))
                   = IF isAggregation /\ Observations(c) # {} THEN 1 ELSE 0
            /\ \A i \in BaselineIndexes(c) :
                /\ result[i].diff = 0
                /\ result[i].recorded_time = FirstObs(c).recorded_time
                /\ result[i].measured_value = FirstObs(c).measured_value
                /\ \A j \in DiffIndexes(c) : i < j)

\* C20: with includeBaseline, an input of two channels with a nonzero first
\* reading gave both baselines and diff records
WitnessC20 ==
    /\ aggPc = "done"
    /\ isAggregation
    /\ \A c \in AggChannels : Cardinality(Observations(c)) >= 2 /\ DiffIndexes(c) # {}
    /\ \E c \in AggChannels : FirstObs(c).measured_value > 0

\* ----------------------------------------------------------------- shards
\* the rows a store held are still its first rows
KeepsRows(old, new) ==
    /\ Len(new.rows) >= Len(old.rows)
    /\ SubSeq(new.rows, 1, Len(old.rows)) = old.rows

\* C21: a shard comes to exist only by the first write of a poll for its month,
\* which has made the device directory and leaves the store with an empty
\* Measurements table; a store that exists is never made again (it keeps its rows)
\* and an open of it goes on to BEGIN without CREATE TABLE; an open with creation
\* disabled of a missing store yields no Database and changes no file or directory.
TheoremC21 ==
    /\ [](\A m \in Months : shards[m].exists => dirExists)
    /\ [][/\ \A m \in Months :
              /\ (~shards[m].exists /\ shards'[m].exists) =>
                     /\ \E p \in Polls : CreateTable(p) /\ MonthOf(currentTime[p]) = m
                     /\ dirExists
                     /\ shards'[m].rows = <<>>
              /\ shards[m].exists => shards'[m].exists /\ KeepsRows(shards[m], shards'[m])
          /\ \A p \in Polls :
              EndEvent(p) =>
                  /\ dirExists'
                  /\ db'[p] = "open"
                  /\ shards' = shards
                  /\ endPc'[p] = IF shards[MonthOf(currentTime[p])].exists
                                 THEN "begin" ELSE "createTable"
          /\ GetMeasurementsDBNoCreate =>
                  /\ storeVars' = storeVars
                  /\ rdOpen' = IF shards[MonthOf(monthlyIterator')].exists
                               THEN {<<"monthly", MonthOf(monthlyIterator')>>} ELSE {}]_vars

\* a second poll of a month has opened the store that holds the rows of the first;
\* before, an open with creation disabled found no store
WitnessC21 ==
    /\ pollRuns = 2
    /\ \E p \in Polls :
        /\ endPc[p] = "begin"
        /\ shards[MonthOf(currentTime[p])].rows # <<>>


\* ------------------------------------------------------- protocol client
\* C22: in one poll 'read all' is written at most once, and only by the step that
\* establishes the connection; the socket starts to connect only in the executor
\* of a new poll, so after a timeout or a socket error the poll neither connects
\* again nor writes the command again.
TheoremC22 ==
    /\ [](\A p \in Polls :
            /\ sentCmd[p] <= 1
            /\ sentCmd[p] = 1 => sock[p] \notin {"none", "connecting"})
    /\ [][\A p \in Polls :
            /\ sentCmd'[p] > sentCmd[p] => sock[p] = "connecting" /\ sock'[p] = "open"
            /\ (sock'[p] = "connecting" /\ sock[p] # "connecting") => StartPoll(p)
            /\ (outcome[p] \in {"timeout", "socketError"} /\ ~StartPoll(p)) =>
                   /\ sock'[p] = "connecting" => sock[p] = "connecting"
                   /\ sentCmd[p] = 1 => sentCmd'[p] = 1]_vars

\* a poll that reported the timeout went on to its end with the one command it
\* had sent
WitnessC22 ==
    \E p \in Polls :
        /\ outcome[p] = "timeout"
        /\ sentCmd[p] = 1
        /\ endPc[p] = "finished"


\* ------------------------------------------------- channels of the aggregation
\* the readings (the records) of channel c, in their order
OfChannel(seq, c) == SelectSeq(seq, LAMBDA r : r.channel = c)

\* the returned result is what getDetails computes from the whole input
ResultIsGetDetails ==
    GetDetailsReturned => result = getDetails(measurements, details, isAggregation)

\* C23, as stated: for every granularity and either value of includeBaseline, the
\* records of channel c in the result of an input that interleaves channels are
\* the records getDetails returns for the readings of channel c alone.
OrigC23 ==
    GetDetailsReturned =>
        \A c \in AggChannels :
            OfChannel(result, c) = getDetails(OfChannel(measurements, c), details, isAggregation)


\* ------------------------------------------------------------ termination
\* C24, as stated: every poll that was started is eventually resolved or rejected,
\* also when the server neither sends the sentinel nor closes the connection and
\* when opening the store fails after the socket has ended.
OrigC24 ==
    \A p \in Polls : (outcome[p] = "pending") ~> (outcome[p] \notin {"idle", "pending"})


\* C25, as stated: once a poll has reported the inactivity timeout or a socket
\* error, no later step of that poll opens a store or adds a row.
OrigC25 ==
    [][\A p \in Polls :
        (outcome[p] \in {"timeout", "socketError"} /\ ~StartPoll(p)) =>
            /\ db'[p] = "open" => db[p] = "open"
            /\ inserted'[p] = inserted[p]]_vars


\* --------------------------------------------------------------- chaining
\* the reading the k-th record of channel c is measured against: the record of c
\* before it, or the first observation of c
BaseOf(c, k) == IF k = 1 THEN FirstObs(c) ELSE OfChannel(result, c)[k - 1]

\* every diff record of c starts at its base and ends at its own reading
IntervalsChained(c) ==
    \A k \in 1 .. Len(OfChannel(result, c)) :
        LET r == OfChannel(result, c)[k] IN
        IsDiffRecord(r) =>
            /\ r.from_time = BaseOf(c, k).recorded_time
            /\ r.to_time = r.recorded_time

\* the baseline of c becomes the emitted record, which carries the current reading,
\* in the steps that emit a record for c, and changes in no other step
BaselineResetWithRecord ==
    \A c \in AggChannels :
        LET old == OfChannel(result, c)
            new == OfChannel(result', c)
        IN  IF Len(new) > Len(old)
            THEN /\ Len(new) = Len(old) + 1
                 /\ prevElement'[c] = new[Len(new)]
                 /\ LET reading == IF Len(measurements') > Len(measurements)
                                   THEN measurements'[Len(measurements')]
                                   ELSE lastElement[c]
                    IN  /\ reading.channel = c
                        /\ prevElement'[c].recorded_time = reading.recorded_time
                        /\ prevElement'[c].measured_value = reading.measured_value
            ELSE prevElement[c] # UndefinedRec => prevElement'[c] = prevElement[c]

\* C26, as stated: each diff record of channel c has diff = its measured_value
\* minus the measured_value of c's previous emitted record (of c's first
\* observation for c's first diff record) and starts at the recorded_time of that
\* record; the baseline of c is reset exactly when a record is emitted for c.
OrigC26 ==
    /\ [](\A c \in AggChannels :
            /\ IntervalsChained(c)
            /\ \A k \in 1 .. Len(OfChannel(result, c)) :
                LET r == OfChannel(result, c)[k] IN
                IsDiffRecord(r) => r.diff = r.measured_value - BaseOf(c, k).measured_value)
    /\ [][BaselineResetWithRecord]_vars

\* C26, amended: the same, the diff being that difference rounded to four
\* decimals, and the difference itself when it is a multiple of 0.0001.
AmendedC26 ==
    /\ [](\A c \in AggChannels :
            /\ IntervalsChained(c)
            /\ \A k \in 1 .. Len(OfChannel(result, c)) :
                LET r == OfChannel(result, c)[k]
                    delta == r.measured_value - BaseOf(c, k).measured_value
                IN  IsDiffRecord(r) =>
                        /\ r.diff = RoundToFourDecimals(delta)
                        /\ delta % Frac = 0 => r.diff = delta)
    /\ [][BaselineResetWithRecord]_vars

\* a daily run with baseline records in which a channel has two boundary records,
\* the second chained to the first, one of them with a difference that is rounded
WitnessC26 ==
    /\ GetDetailsReturned
    /\ details = "daily"
    /\ isAggregation
    /\ \E c \in AggChannels :
        LET R == OfChannel(result, c) IN
        /\ Len(R) >= 3
        /\ IsDiffRecord(R[2]) /\ IsDiffRecord(R[3])
        /\ R[3].from_time = R[2].recorded_time
        /\ R[3].from_time > R[2].from_time
        /\ (R[3].measured_value - R[2].measured_value) % Frac # 0


\* C27, as stated: without baseline records, for every granularity, every channel
\* with more than one observation in the input has at least one diff record in
\* the result.
OrigC27 ==
    (GetDetailsReturned /\ ~isAggregation) =>
        \A c \in AggChannels : Cardinality(Observations(c)) > 1 => DiffIndexes(c) # {}


\* the readings of channel c have strictly increasing recorded_time
StrictlyIncreasingTimes(c) ==
    \A i, j \in Observations(c) :
        i < j => measurements[i].recorded_time < measurements[j].recorded_time

\* C28, as stated: for a channel whose readings have strictly increasing
\* recorded_time, every diff record of the result (boundary record or trailing
\* flush) ends strictly later than it starts.
OrigC28 ==
    GetDetailsReturned =>
        \A c \in AggChannels :
            StrictlyIncreasingTimes(c) =>
                \A i \in DiffIndexes(c) : result[i].to_time > result[i].from_time


====
